---- MODULE Spec2Model ----
(***************************************************************************)
(* Model of the `byte` crate: the Error type, check_len, the TryRead and   *)
(* TryWrite codec traits, the bool codec, the cursor layer BytesExt        *)
(* (read / read_with / write / write_with / read_iter) and Iter::next.     *)
(*                                                                         *)
(* A value is a sequence of strings (<<"true">>, <<"false">>, a pair for   *)
(* the composite codec, <<"v">> for an abstract codec, <<>> for no value). *)
(* A Result is a record [tag, val, n]: n is the size of an Ok and the      *)
(* offset carried by a BadOffset.                                          *)
(***************************************************************************)
EXTENDS Integers, Sequences, FiniteSets, TLC

\* Bounds of the model.
MaxLen == 2
MaxByte == 2

MaxOffset == MaxLen + 1
MaxYield == MaxLen + 1

Byte == 0..MaxByte
Buffers == UNION {[1..n -> Byte] : n \in 0..MaxLen}

\* Result<T> = core::result::Result<T, Error>, and the three Error kinds.
Ok(v, size) == [tag |-> "Ok", val |-> v, n |-> size]
Incomplete == [tag |-> "Incomplete", val |-> <<>>, n |-> 0]
BadOffset(o) == [tag |-> "BadOffset", val |-> <<>>, n |-> o]
BadInput == [tag |-> "BadInput", val |-> <<>>, n |-> 0]

\* Marks a call in which try_read / try_write was not invoked.
NotCalled == [tag |-> "NotCalled", val |-> <<>>, n |-> 0]

\* Option<T> of Iter::next.
Some(v) == [tag |-> "Some", val |-> v, n |-> 0]
None == [tag |-> "None", val |-> <<>>, n |-> 0]

\* &bytes[offset..] for offset <= bytes.len() (a larger offset panics, see
\* Iter_next; read_with and write_with return before slicing).
SliceFrom(bytes, o) == SubSeq(bytes, o + 1, Len(bytes))
\* bytes[..offset], the part of the buffer a call at offset cannot touch.
SliceTo(bytes, o) == SubSeq(bytes, 1, o)

check_len(bytes, len) ==
    IF Len(bytes) < len THEN Incomplete ELSE Ok(<<>>, len)

\* The implementations of TryRead / TryWrite the model ranges over:
\*   bool       src/ctx/bool.rs
\*   composite  a type whose try_read / try_write chains nested
\*              bytes.read / bytes.write calls over a local offset starting
\*              at 0 and returns that offset, as the Header of the crate
\*              documentation does; its two fields are bools
\*   contract   any implementation that reports 0 <= size <= slice.len()
\*   overrun    an implementation that reports more than slice.len()
ConcreteCodecs == {"bool", "composite"}
AbstractCodecs == {"contract", "overrun"}
Codecs == ConcreteCodecs \cup AbstractCodecs

\* The sizes an abstract implementation reports on a slice.
Sizes(T, slice) ==
    IF T = "overrun" THEN {Len(slice) + 1} ELSE 0..Len(slice)

\* The errors an abstract implementation returns: its own, or the BadOffset
\* of a nested read_with / write_with that started at the end of the slice.
Errors(slice) == {Incomplete, BadInput, BadOffset(Len(slice))}

\* What an abstract try_read may return on a slice.
ReadChoices(T, slice) ==
    IF T \in ConcreteCodecs THEN {NotCalled}
    ELSE {Ok(<<"v">>, k) : k \in Sizes(T, slice)}
         \cup (IF T = "overrun" THEN {} ELSE Errors(slice))

\* The slice with its first j bytes set to x.
Fill(slice, j, x) == [i \in 1..Len(slice) |-> IF i <= j THEN x ELSE slice[i]]

Min(a, b) == IF a < b THEN a ELSE b

\* What an abstract try_write may return and leave in the slice: the bytes
\* it reports written, or on an error a first byte written before it failed.
WriteChoices(T, slice) ==
    IF T \in ConcreteCodecs THEN {[res |-> NotCalled, bytes |-> slice]}
    ELSE {[res |-> Ok(<<>>, k), bytes |-> Fill(slice, Min(k, Len(slice)), x)] :
            k \in Sizes(T, slice), x \in Byte}
         \cup {[res |-> e, bytes |-> Fill(slice, j, x)] :
                 e \in IF T = "overrun" THEN {} ELSE Errors(slice),
                 j \in 0..Min(1, Len(slice)), x \in Byte}

BoolValues == {<<"true">>, <<"false">>}
Values(T) ==
    IF T = "bool" THEN BoolValues
    ELSE IF T = "composite" THEN {a \o b : a \in BoolValues, b \in BoolValues}
    ELSE {<<"v">>}

RECURSIVE read_with(_, _, _, _)
RECURSIVE write_with(_, _, _, _, _)

\* bool_try_read reading every nonzero byte as true.
bool_try_read_nonzero(bytes) ==
    IF check_len(bytes, 1).tag # "Ok" THEN check_len(bytes, 1)
    ELSE IF bytes[1] # 0 THEN Ok(<<"true">>, 1)
    ELSE Ok(<<"false">>, 1)

\* <bool as TryRead>::try_read
bool_try_read(bytes) ==
    IF check_len(bytes, 1).tag # "Ok" THEN check_len(bytes, 1)
    ELSE IF bytes[1] = 1 THEN Ok(<<"true">>, 1)
    ELSE IF bytes[1] = 0 THEN Ok(<<"false">>, 1)
    ELSE BadInput

\* bool_try_write encoding true as the largest byte.
bool_try_write_max(self, bytes) ==
    IF check_len(bytes, 1).tag # "Ok"
    THEN [res |-> check_len(bytes, 1), bytes |-> bytes]
    ELSE [res |-> Ok(<<>>, 1),
          bytes |-> [bytes EXCEPT ![1] = IF self = <<"true">> THEN MaxByte ELSE 0]]

\* bool_try_write setting every byte of the slice it was given.
bool_try_write_fill(self, bytes) ==
    IF check_len(bytes, 1).tag # "Ok"
    THEN [res |-> check_len(bytes, 1), bytes |-> bytes]
    ELSE [res |-> Ok(<<>>, 1),
          bytes |-> [i \in 1..Len(bytes) |-> IF self = <<"true">> THEN 1 ELSE 0]]

\* <bool as TryWrite>::try_write
bool_try_write(self, bytes) ==
    IF check_len(bytes, 1).tag # "Ok"
    THEN [res |-> check_len(bytes, 1), bytes |-> bytes]
    ELSE [res |-> Ok(<<>>, 1),
          bytes |-> [bytes EXCEPT ![1] = IF self = <<"true">> THEN 1 ELSE 0]]

\* BytesExt::read: read_with with the default context.
read(self, offset, T, c) == read_with(self, offset, T, c)

\* BytesExt::write: write_with with the default context.
write(self, offset, t, T, c) == write_with(self, offset, t, T, c)

\* try_read of the composite: offset = &mut 0; two nested bytes.read(offset)?
\* (the ? returns the nested error as it is); Ok((value, *offset)).
composite_try_read(bytes) ==
    LET r1 == read(bytes, 0, "bool", NotCalled) IN
    IF r1.res.tag # "Ok" THEN r1.res
    ELSE LET r2 == read(bytes, r1.offset, "bool", NotCalled) IN
         IF r2.res.tag # "Ok" THEN r2.res
         ELSE Ok(r1.res.val \o r2.res.val, r2.offset)

\* try_write of the composite: offset = &mut 0; two nested
\* bytes.write(offset, field)?; Ok(*offset).  A failure of the second write
\* leaves the first field written.
composite_try_write(self, bytes) ==
    LET w1 == write(bytes, 0, <<self[1]>>, "bool", NotCalled) IN
    IF w1.res.tag # "Ok" THEN [res |-> w1.res, bytes |-> w1.bytes]
    ELSE LET w2 == write(w1.bytes, w1.offset, <<self[2]>>, "bool", NotCalled) IN
         IF w2.res.tag # "Ok" THEN [res |-> w2.res, bytes |-> w2.bytes]
         ELSE [res |-> Ok(<<>>, w2.offset), bytes |-> w2.bytes]

\* TryRead::try_read, dispatched on the type; c is what an abstract
\* implementation returns.
try_read(T, bytes, c) ==
    IF T = "bool" THEN bool_try_read(bytes)
    ELSE IF T = "composite" THEN composite_try_read(bytes)
    ELSE c

\* TryWrite::try_write, dispatched on the type.
try_write(T, self, bytes, c) ==
    IF T = "bool" THEN bool_try_write(self, bytes)
    ELSE IF T = "composite" THEN composite_try_write(self, bytes)
    ELSE c

\* read_with assigning the size to the offset instead of adding it.
read_with_assign(self, offset, T, c) ==
    IF offset >= Len(self)
    THEN [res |-> BadOffset(offset), offset |-> offset, inner |-> NotCalled]
    ELSE LET r == try_read(T, SliceFrom(self, offset), c) IN
         IF r.tag = "Ok"
         THEN [res |-> Ok(r.val, 0), offset |-> r.n, inner |-> r]
         ELSE IF r.tag = "BadOffset"
         THEN [res |-> Incomplete, offset |-> offset, inner |-> r]
         ELSE [res |-> r, offset |-> offset, inner |-> r]

\* read_with accepting an offset equal to the length.
read_with_gt(self, offset, T, c) ==
    IF offset > Len(self)
    THEN [res |-> BadOffset(offset), offset |-> offset, inner |-> NotCalled]
    ELSE LET r == try_read(T, SliceFrom(self, offset), c) IN
         IF r.tag = "Ok"
         THEN [res |-> Ok(r.val, 0), offset |-> offset + r.n, inner |-> r]
         ELSE IF r.tag = "BadOffset"
         THEN [res |-> Incomplete, offset |-> offset, inner |-> r]
         ELSE [res |-> r, offset |-> offset, inner |-> r]

\* read_with without the BadOffset arm: every error is returned as it is.
read_with_passthrough(self, offset, T, c) ==
    IF offset >= Len(self)
    THEN [res |-> BadOffset(offset), offset |-> offset, inner |-> NotCalled]
    ELSE LET r == try_read(T, SliceFrom(self, offset), c) IN
         IF r.tag = "Ok"
         THEN [res |-> Ok(r.val, 0), offset |-> offset + r.n, inner |-> r]
         ELSE [res |-> r, offset |-> offset, inner |-> r]

\* <[u8] as BytesExt>::read_with.  inner is the Result of try_read.
read_with(self, offset, T, c) ==
    IF offset >= Len(self)
    THEN [res |-> BadOffset(offset), offset |-> offset, inner |-> NotCalled]
    ELSE LET r == try_read(T, SliceFrom(self, offset), c) IN
         IF r.tag = "Ok"
         THEN [res |-> Ok(r.val, 0), offset |-> offset + r.n, inner |-> r]
         ELSE IF r.tag = "BadOffset"
         THEN [res |-> Incomplete, offset |-> offset, inner |-> r]
         ELSE [res |-> r, offset |-> offset, inner |-> r]

\* write_with advancing the offset one past the size.
write_with_plus1(self, offset, t, T, c) ==
    IF offset >= Len(self)
    THEN [res |-> BadOffset(offset), offset |-> offset, bytes |-> self,
          inner |-> NotCalled]
    ELSE LET w == try_write(T, t, SliceFrom(self, offset), c)
             b == SliceTo(self, offset) \o w.bytes
         IN
         IF w.res.tag = "Ok"
         THEN [res |-> Ok(<<>>, 0), offset |-> offset + w.res.n + 1, bytes |-> b,
               inner |-> w.res]
         ELSE IF w.res.tag = "BadOffset"
         THEN [res |-> Incomplete, offset |-> offset, bytes |-> b,
               inner |-> w.res]
         ELSE [res |-> w.res, offset |-> offset, bytes |-> b, inner |-> w.res]

\* <[u8] as BytesExt>::write_with.  try_write works in place on
\* slice[*offset..], so what it left there is in the buffer also on failure.
write_with(self, offset, t, T, c) ==
    IF offset >= Len(self)
    THEN [res |-> BadOffset(offset), offset |-> offset, bytes |-> self,
          inner |-> NotCalled]
    ELSE LET w == try_write(T, t, SliceFrom(self, offset), c)
             b == SliceTo(self, offset) \o w.bytes
         IN
         IF w.res.tag = "Ok"
         THEN [res |-> Ok(<<>>, 0), offset |-> offset + w.res.n, bytes |-> b,
               inner |-> w.res]
         ELSE IF w.res.tag = "BadOffset"
         THEN [res |-> Incomplete, offset |-> offset, bytes |-> b,
               inner |-> w.res]
         ELSE [res |-> w.res, offset |-> offset, bytes |-> b, inner |-> w.res]

\* Iter::next stepping over the bytes it failed to decode.
Iter_next_skip(bytes, offset, T, c) ==
    IF offset > Len(bytes)
    THEN [panic |-> TRUE, item |-> None, offset |-> offset, inner |-> NotCalled]
    ELSE LET r == try_read(T, SliceFrom(bytes, offset), c) IN
         IF r.tag = "Ok"
         THEN [panic |-> FALSE, item |-> Some(r.val), offset |-> offset + r.n,
               inner |-> r]
         ELSE [panic |-> FALSE, item |-> None,
               offset |-> Min(offset + 1, Len(bytes)), inner |-> r]

\* Iter::next yielding the value without advancing the offset.
Iter_next_stay(bytes, offset, T, c) ==
    IF offset > Len(bytes)
    THEN [panic |-> TRUE, item |-> None, offset |-> offset, inner |-> NotCalled]
    ELSE LET r == try_read(T, SliceFrom(bytes, offset), c) IN
         IF r.tag = "Ok"
         THEN [panic |-> FALSE, item |-> Some(r.val), offset |-> offset,
               inner |-> r]
         ELSE [panic |-> FALSE, item |-> None, offset |-> offset, inner |-> r]

\* Iter::next.  &self.bytes[*self.offset..] is sliced with no check of the
\* offset: an offset beyond the length panics.
Iter_next(bytes, offset, T, c) ==
    IF offset > Len(bytes)
    THEN [panic |-> TRUE, item |-> None, offset |-> offset, inner |-> NotCalled]
    ELSE LET r == try_read(T, SliceFrom(bytes, offset), c) IN
         IF r.tag = "Ok"
         THEN [panic |-> FALSE, item |-> Some(r.val), offset |-> offset + r.n,
               inner |-> r]
         ELSE [panic |-> FALSE, item |-> None, offset |-> offset, inner |-> r]

VARIABLES
    bytes,      \* the buffer
    offset,     \* the caller's offset
    pc,         \* "idle", "iter" (an Iter borrows bytes and offset), "panicked"
    iterT,      \* the type the live Iter reads
    yielded,    \* the values the live Iter has yielded, the first MaxYield
    last,       \* the latest call: its inputs, what the codec returned (inner)
                \* and what the call returned (res); tick flips at every call
    inContract, \* the offset started within the buffer and every codec used
                \* since is one that reports at most the slice it was given
    started,    \* the offset the live Iter was made at
    wrote       \* the bool the latest write put at offset 0, if it did

vars == <<bytes, offset, pc, iterT, yielded, last, inContract, started, wrote>>

NoCall ==
    [tick |-> 0, op |-> "none", T |-> "bool", arg |-> <<>>, before |-> 0,
     inner |-> NotCalled, res |-> NotCalled]

Call(op, T, arg, before, inner, res) ==
    [tick |-> 1 - last.tick, op |-> op, T |-> T, arg |-> arg,
     before |-> before, inner |-> inner, res |-> res]

\* The implementations bound by the rule size <= slice.len().
Obeys(T) == T # "overrun"

NoWrite == [val |-> <<>>, after |-> 0]

Init ==
    /\ bytes \in Buffers
    /\ offset \in 0..MaxOffset
    /\ pc = "idle"
    /\ iterT = "bool"
    /\ yielded = <<>>
    /\ last = NoCall
    /\ inContract = (offset <= Len(bytes))
    /\ started = 0
    /\ wrote = NoWrite

\* The caller assigns its offset (a plain usize, e.g. a fresh &mut 0).
SetOffset ==
    /\ pc = "idle"
    /\ \E o \in 0..MaxOffset :
         /\ o # offset
         /\ offset' = o
         /\ inContract' = (o <= Len(bytes))
    /\ UNCHANGED <<bytes, pc, iterT, yielded, last, started, wrote>>

\* bytes.read::<T>(&mut offset) / bytes.read_with::<T>(&mut offset, ctx)
Read ==
    /\ pc = "idle"
    /\ \E T \in Codecs : \E c \in ReadChoices(T, SliceFrom(bytes, offset)) :
         LET r == read(bytes, offset, T, c) IN
         /\ offset' = r.offset
         /\ last' = Call("read", T, <<>>, offset, r.inner, r.res)
         /\ inContract' = (inContract /\ Obeys(T))
    /\ UNCHANGED <<bytes, pc, iterT, yielded, started, wrote>>

\* bytes.write(&mut offset, t) / bytes.write_with(&mut offset, t, ctx)
Write ==
    /\ pc = "idle"
    /\ \E T \in Codecs : \E t \in Values(T) :
       \E c \in WriteChoices(T, SliceFrom(bytes, offset)) :
         LET w == write(bytes, offset, t, T, c) IN
         /\ offset' = w.offset
         /\ bytes' = w.bytes
         /\ last' = Call("write", T, t, offset, w.inner, w.res)
         /\ inContract' = (inContract /\ Obeys(T))
         /\ wrote' = IF T = "bool" /\ offset = 0 /\ w.res.tag = "Ok"
                     THEN [val |-> t, after |-> w.offset] ELSE NoWrite
    /\ UNCHANGED <<pc, iterT, yielded, started>>

\* bytes.read_iter::<T>(&mut offset, ctx)
ReadIter ==
    /\ pc = "idle"
    /\ \E T \in Codecs : iterT' = T
    /\ pc' = "iter"
    /\ yielded' = <<>>
    /\ started' = offset
    /\ last' = Call("read_iter", iterT', <<>>, offset, NotCalled, NotCalled)
    /\ UNCHANGED <<bytes, offset, inContract, wrote>>

\* iter.next()
IterNext ==
    /\ pc = "iter"
    /\ \E c \in ReadChoices(iterT, SliceFrom(bytes, offset)) :
         LET r == Iter_next(bytes, offset, iterT, c) IN
         /\ pc' = IF r.panic THEN "panicked" ELSE pc
         /\ offset' = r.offset
         /\ yielded' = IF r.item.tag = "Some" /\ Len(yielded) < MaxYield
                       THEN Append(yielded, r.item.val) ELSE yielded
         /\ last' = IF r.panic THEN last
                    ELSE Call("next", iterT, <<>>, offset, r.inner, r.item)
         /\ inContract' = (inContract /\ (r.panic \/ Obeys(iterT)))
    /\ UNCHANGED <<bytes, iterT, started, wrote>>

\* The Iter goes out of scope and its borrows end.
IterDrop ==
    /\ pc = "iter"
    /\ pc' = "idle"
    /\ iterT' = "bool"
    /\ yielded' = <<>>
    /\ started' = 0
    /\ UNCHANGED <<bytes, offset, last, inContract, wrote>>

Next == SetOffset \/ Read \/ Write \/ ReadIter \/ IterNext \/ IterDrop

Spec == Init /\ [][Next]_vars

\* A caller that made an Iter over a buffer, from an offset within it, and
\* keeps calling next (for x in iter).
InitIter ==
    /\ bytes \in Buffers
    /\ offset \in 0..Len(bytes)
    /\ pc = "iter"
    /\ iterT \in Codecs
    /\ yielded = <<>>
    /\ last = [tick |-> 1, op |-> "read_iter", T |-> iterT, arg |-> <<>>,
                before |-> offset, inner |-> NotCalled, res |-> NotCalled]
    /\ inContract = TRUE
    /\ started = offset
    /\ wrote = NoWrite

LiveSpec == InitIter /\ [][IterNext]_vars /\ WF_vars(IterNext)

(***************************************************************************)
(* Properties                                                              *)
(***************************************************************************)

\* A step that is a call of read/read_with or write/write_with.
CursorCall == last'.tick # last.tick /\ last'.op \in {"read", "write"}

\* C1: a read/read_with or write/write_with call that succeeds adds to the
\* offset exactly the size the codec reported; a call that fails with
\* BadOffset, Incomplete or BadInput leaves the offset as it was.
OffsetAdvance ==
    [][CursorCall =>
         IF last'.res.tag = "Ok"
         THEN last'.inner.tag = "Ok" /\ offset' = offset + last'.inner.n
         ELSE /\ last'.res.tag \in {"BadOffset", "Incomplete", "BadInput"}
              /\ offset' = offset]_vars

OffsetAdvanceWitness ==
    /\ last.op = "write" /\ last.T = "contract"
    /\ last.res.tag = "Ok" /\ last.inner.n = 2
    /\ last.before = 0 /\ offset = 2

\* C2: no operation faults: read_with, write_with and Iter::next return a
\* value, an error or None for every buffer and every offset, also an offset
\* greater than the buffer length.
NeverFaults == pc # "panicked"

\* C3: read_with and write_with return BadOffset(n) exactly when the offset
\* at the call is at least the buffer length (also offset 0 on an empty
\* buffer); n is then that offset, the codec is not invoked and the buffer is
\* not modified.
BadOffsetExactly ==
    [][CursorCall =>
         /\ (last'.res.tag = "BadOffset") <=> (offset >= Len(bytes))
         /\ last'.res.tag = "BadOffset" =>
              /\ last'.res.n = offset
              /\ last'.inner = NotCalled
              /\ bytes' = bytes
              /\ offset' = offset
         /\ last'.res.tag # "BadOffset" => last'.inner # NotCalled]_vars

BadOffsetWitness ==
    /\ bytes = <<>> /\ last.op = "write" /\ last.T = "bool"
    /\ last.arg = <<"true">> /\ last.before = 0
    /\ last.res = BadOffset(0) /\ offset = 0

\* C4: with the offset within the buffer, a BadOffset from the codec's
\* try_read / try_write is returned as Incomplete, and an Incomplete or
\* BadInput from the codec is returned unchanged.
Reclassification ==
    (last.op \in {"read", "write"} /\ last.inner # NotCalled) =>
        /\ last.before < Len(bytes)
        /\ last.inner.tag = "BadOffset" => last.res = Incomplete
        /\ last.inner.tag \in {"Incomplete", "BadInput"} => last.res = last.inner

ReclassificationWitness ==
    /\ last.op = "read" /\ last.T = "composite"
    /\ bytes = <<1>> /\ last.before = 0
    /\ last.inner = BadOffset(1) /\ last.res = Incomplete

\* The number of leading bytes of the buffer that encode a bool.
RECURSIVE ValidPrefix(_)
ValidPrefix(b) ==
    IF b = <<>> \/ Head(b) \notin {0, 1} THEN 0 ELSE 1 + ValidPrefix(Tail(b))

DecodedBool(byte) == IF byte = 1 THEN <<"true">> ELSE <<"false">>

\* C5: an Iter of bools made at offset 0 over N valid encodings followed by
\* invalid bytes yields the N values in order and nothing more, and once it
\* has yielded None the offset is at the first invalid byte, or at the
\* buffer length when no bytes trail.
IterYieldsValidPrefix ==
    (pc = "iter" /\ iterT = "bool" /\ started = 0) =>
        /\ Len(yielded) <= ValidPrefix(bytes)
        /\ \A i \in 1..Len(yielded) : yielded[i] = DecodedBool(bytes[i])
        /\ offset = Len(yielded)
        /\ (last.op = "next" /\ last.res = None) =>
              /\ Len(yielded) = ValidPrefix(bytes)
              /\ offset = ValidPrefix(bytes)

IterYieldsWitness ==
    /\ pc = "iter" /\ iterT = "bool" /\ started = 0
    /\ bytes = <<1, 2>> /\ yielded = << <<"true">> >>
    /\ last.op = "next" /\ last.res = None /\ offset = 1

\* The Iter has yielded None.
Stopped == last.op = "next" /\ last.res = None
\* The Iter has yielded a value whose codec reported size 0.
ZeroSize == last.op = "next" /\ last.inner.tag = "Ok" /\ last.inner.n = 0

\* C6 as stated: with a codec that reports at most the slice length, an Iter
\* made within the buffer eventually yields None.
IterFinite == Obeys(iterT) => <>Stopped

\* C6 amended: with a codec that reports at least 1 and at most the slice
\* length, an Iter made within the buffer eventually yields None, and it
\* yields no value from an offset equal to the buffer length.
IterFiniteWithProgress ==
    Obeys(iterT) =>
        /\ ([]~ZeroSize) => <>Stopped
        /\ [](last.op = "next" /\ last.before = Len(bytes) /\ ~ZeroSize
                => last.res = None)

IterFiniteWitness ==
    /\ pc = "iter" /\ iterT = "contract" /\ started = 0
    /\ Len(bytes) = 2 /\ Len(yielded) = 2 /\ offset = 2
    /\ Stopped /\ last.before = 2

\* C7: when the offset starts at most the buffer length and the codecs used
\* report at most the length of the slice they were given, the offset stays
\* at most the buffer length through reads, writes and Iter steps.
OffsetWithinBuffer == inContract => offset <= Len(bytes)

OffsetWithinWitness ==
    /\ inContract /\ Len(bytes) = 2 /\ offset = 2
    /\ last.op = "write" /\ last.T = "composite" /\ last.res.tag = "Ok"

\* C8: after a bool v was written at offset 0, a bool read at offset 0 of
\* the same buffer returns v and leaves the offset where the write left it.
BoolRoundTrip ==
    [][(/\ wrote # NoWrite
        /\ last'.tick # last.tick /\ last'.op = "read" /\ last'.T = "bool"
        /\ offset = 0)
       => /\ last'.res = Ok(wrote.val, 0)
          /\ offset' = wrote.after
          /\ offset' = 1]_vars

BoolRoundTripWitness ==
    /\ wrote = [val |-> <<"true">>, after |-> 1]
    /\ last.op = "read" /\ last.T = "bool" /\ last.before = 0
    /\ last.res = Ok(<<"true">>, 0) /\ offset = 1

\* C9: bool's try_read fails with Incomplete on an empty slice; otherwise a
\* first byte 1 gives true and 0 gives false, each with size 1, and any
\* other first byte gives BadInput, whatever bytes follow.
BoolDecode ==
    (last.op \in {"read", "next"} /\ last.T = "bool" /\ last.inner # NotCalled) =>
        LET slice == SliceFrom(bytes, last.before) IN
        IF slice = <<>> THEN last.inner = Incomplete
        ELSE IF slice[1] = 1 THEN last.inner = Ok(<<"true">>, 1)
        ELSE IF slice[1] = 0 THEN last.inner = Ok(<<"false">>, 1)
        ELSE last.inner = BadInput

BoolDecodeWitness ==
    /\ last.op = "read" /\ last.T = "bool" /\ last.before = 0
    /\ bytes = <<2, 1>> /\ last.inner = BadInput

\* C10: a bool write at an offset within the buffer succeeds, sets the byte
\* at that offset to 1 for true and 0 for false and leaves every other byte
\* as it was; a bool write that fails leaves every byte as it was.
BoolWriteFrame ==
    [][(last'.tick # last.tick /\ last'.op = "write" /\ last'.T = "bool") =>
         IF offset < Len(bytes)
         THEN /\ last'.res.tag = "Ok"
              /\ bytes' = [bytes EXCEPT
                             ![offset + 1] = IF last'.arg = <<"true">> THEN 1 ELSE 0]
         ELSE last'.res.tag # "Ok" /\ bytes' = bytes]_vars

BoolWriteWitness ==
    /\ last.op = "write" /\ last.T = "bool" /\ last.arg = <<"false">>
    /\ last.before = 0 /\ last.res.tag = "Ok" /\ bytes = <<0, 2>>

====
